---- MODULE Spec2Model ----
(***************************************************************************)
(* A model of reqq's request file handling (src/request.rs): the Request   *)
(* object with its cached text `fstr` and parsed request `inner`, and the  *)
(* operations load, apply_env, apply_combined_args, parse and execute.     *)
(*                                                                         *)
(* Text is a sequence of one-character strings.  A template placeholder    *)
(* {{ k }} is one token of the sequence, and so is an unterminated "{{".   *)
(* An Option is a sequence of length 0 (None) or 1 (Some).                 *)
(***************************************************************************)
EXTENDS Naturals, Sequences, FiniteSets, TLC

VARIABLES
    fpath,      \* Request.fpath
    named,      \* the last call of name: its dir and the name it returned
    disk,       \* the request file: None when it cannot be read, else its text
    fstr,       \* Request.fstr
    inner,      \* Request.inner
    reads,      \* how often the request file was read
    op,         \* the call made last: "new", "load", "parse" or "execute"
    args,       \* the env and extra_args of that call
    stage,      \* the last stage that call entered
    combined,   \* the combined_args that call built, if it built them
    template,   \* the text that call rendered as a template, if it rendered
    outcome,    \* what that call returned: "Ok", an error kind or "Panic"
    sent,       \* the request that call handed to the client, if any
    everOk      \* some call of parse has returned Ok

vars ==
    <<fpath, named, disk, fstr, inner, reads, op, args, stage, combined, template, outcome,
      sent, everOk>>

(***************************************************************************)
(* Bounds of the model.                                                    *)
(***************************************************************************)
\* The most lines a request file has after its request line.
MaxLines == 3

(***************************************************************************)
(* Options.                                                                *)
(***************************************************************************)
None == <<>>

Some(x) == <<x>>

IsNone(o) == o = <<>>

IsSome(o) == o # <<>>

Unwrap(o) == o[1]

(***************************************************************************)
(* Characters.                                                             *)
(***************************************************************************)
NL == "\n"

CR == "\r"

\* The placeholder of a request file, and the key it names.
Placeholders == {"{{a}}"}

KeyOf(ph) == "a"

Keys == {KeyOf(ph) : ph \in Placeholders}

\* An opening "{{" that is never closed: a malformed template.
OpenBrace == "{{"

\* [A-Za-z0-9-] of the header pattern; also the characters of a token that
\* the alphabet of the model holds.
NameChar(c) == c \in {"G", "H", "g", "h", "5", "-"}

\* \s of the header pattern.
IsSpace(c) == c \in {" ", "\t", CR, NL}

Lower(c) == IF c = "G" THEN "g" ELSE IF c = "H" THEN "h" ELSE c

LowerStr(s) == [i \in 1..Len(s) |-> Lower(s[i])]

(***************************************************************************)
(* String helpers.                                                         *)
(***************************************************************************)
\* The least index of s that holds c, or 0.
IndexOf(s, c) ==
    IF \E i \in 1..Len(s) : s[i] = c
    THEN CHOOSE i \in 1..Len(s) : s[i] = c /\ \A j \in 1..(i - 1) : s[j] # c
    ELSE 0

\* pat occurs in s at index i.
OccursAt(s, pat, i) == i + Len(pat) - 1 <= Len(s) /\ SubSeq(s, i, i + Len(pat) - 1) = pat

\* The least index at which pat occurs in s, or 0.
Find(s, pat) ==
    IF \E i \in 1..Len(s) : OccursAt(s, pat, i)
    THEN CHOOSE i \in 1..Len(s) : OccursAt(s, pat, i) /\ \A j \in 1..(i - 1) : ~OccursAt(s, pat, j)
    ELSE 0

\* The parts of s around the n characters at index p; s itself when p is 0.
SplitAt(s, p, n) ==
    IF p = 0 THEN <<s>> ELSE <<SubSeq(s, 1, p - 1), SubSeq(s, p + n, Len(s))>>

\* str::splitn(2, pat): the parts the iterator yields, one or two of them.
SplitN2(s, pat) == SplitAt(s, Find(s, pat), Len(pat))

\* A line as str::lines yields it: without the "\r" that ends it.
StripCR(l) == IF l # <<>> /\ l[Len(l)] = CR THEN SubSeq(l, 1, Len(l) - 1) ELSE l

\* str::lines(): the text split at each "\n", a "\r" before it removed, and
\* no last empty line after a final "\n".
RECURSIVE Lines(_)
LinesAt(s, p) ==
    IF p = 0 THEN <<s>>
    ELSE <<StripCR(SubSeq(s, 1, p - 1))>> \o Lines(SubSeq(s, p + 1, Len(s)))

Lines(s) == IF s = <<>> THEN <<>> ELSE LinesAt(s, IndexOf(s, NL))

(***************************************************************************)
(* The variable mappings: the environment file and the extra arguments.    *)
(***************************************************************************)
\* The values a variable is bound to: JSON strings.
Values == {<<"G">>, <<"H", ":">>}

\* HashMap<String, serde_json::Value>: a function from some of the keys.
Maps == UNION {[D -> Values] : D \in SUBSET Keys}

EmptyMap == <<>>

\* HashMap::extend, and HashMap::insert of every entry of other: a key of
\* other gets the value other gives it.
Extend(m, other) ==
    [x \in DOMAIN m \cup DOMAIN other |-> IF x \in DOMAIN other THEN other[x] ELSE m[x]]

\* An environment file: missing, holding JSON that is no object, or holding
\* an object.
Envs ==
    {[file |-> "missing", map |-> EmptyMap], [file |-> "notobject", map |-> EmptyMap]}
        \cup {[file |-> "object", map |-> m] : m \in Maps}

\* Results: Ok with a value, Err with an error kind, or Panic.
Ok(v) == [kind |-> "Ok", err |-> "", val |-> v]

Err(e) == [kind |-> "Err", err |-> e, val |-> <<>>]

Panic == [kind |-> "Panic", err |-> "", val |-> <<>>]

\* Env::load: fails when the file cannot be read.
EnvLoad(env) == IF env.file = "missing" THEN Err("IoError") ELSE Ok(<<>>)

\* Env::to_hashmap: fails when the content is no JSON object.
EnvToHashmap(env) == IF env.file = "notobject" THEN Err("FormatError") ELSE Ok(env.map)

\* Result::unwrap: the value, or a panic.
UnwrapResult(r) == IF r.kind = "Ok" THEN r ELSE Panic

\* combined_args.extend(env.to_hashmap().unwrap())
ExtendWith(combined_args, loaded, hashmap) ==
    IF loaded.kind # "Ok" THEN Panic
    ELSE IF hashmap.kind # "Ok" THEN Panic
    ELSE Ok(Extend(combined_args, hashmap.val))

\* Request::apply_env: both results are unwrapped, so a failure panics.
apply_env(env, combined_args) ==
    ExtendWith(combined_args, UnwrapResult(EnvLoad(env)), UnwrapResult(EnvToHashmap(env)))

\* The insertion loop the other way round: an entry of the environment
\* replaces the extra argument of its key.
InsertExtraArgsEnvWins(combined_args, extra_args) == Extend(extra_args, combined_args)

\* The extra arguments taken for the combined arguments when there are any,
\* what the environment gave being dropped.
InsertExtraArgsReplaces(combined_args, extra_args) ==
    IF extra_args = EmptyMap THEN combined_args ELSE extra_args

\* The insertion loop over extra_args.
InsertExtraArgs(combined_args, extra_args) == Extend(combined_args, extra_args)

\* The extra_args inserted into what apply_env gave.
InsertInto(r, extra_args) ==
    IF r.kind # "Ok" THEN r ELSE Ok(InsertExtraArgs(r.val, extra_args))

\* The merged mapping apply_combined_args renders with.
CombinedArgs(env, extra_args) ==
    IF IsNone(env) THEN Ok(InsertExtraArgs(EmptyMap, extra_args))
    ELSE InsertInto(apply_env(Unwrap(env), EmptyMap), extra_args)

(***************************************************************************)
(* Template expansion: Handlebars::new().render_template.                  *)
(***************************************************************************)
\* The default escape function of the registry.
EscapeChar(c) ==
    IF c = "&" THEN <<"&", "a", "m", "p", ";">>
    ELSE IF c = "<" THEN <<"&", "l", "t", ";">>
    ELSE IF c = ">" THEN <<"&", "g", "t", ";">>
    ELSE <<c>>

RECURSIVE EscapeStr(_)
EscapeStr(s) == IF s = <<>> THEN <<>> ELSE EscapeChar(Head(s)) \o EscapeStr(Tail(s))

\* A rendering that drops the spaces of the literal text.
RenderTokenNoSpace(tok, m) ==
    IF tok \in Placeholders
    THEN IF KeyOf(tok) \in DOMAIN m THEN EscapeStr(m[KeyOf(tok)]) ELSE <<>>
    ELSE IF tok = " " THEN <<>> ELSE <<tok>>

\* What one token of the template renders to.  The registry is not in
\* strict mode: a key the mapping lacks renders as the empty string.
RenderToken(tok, m) ==
    IF tok \in Placeholders
    THEN IF KeyOf(tok) \in DOMAIN m THEN EscapeStr(m[KeyOf(tok)]) ELSE <<>>
    ELSE <<tok>>

RECURSIVE RenderAll(_, _)
RenderAll(t, m) == IF t = <<>> THEN <<>> ELSE RenderToken(Head(t), m) \o RenderAll(Tail(t), m)

\* render_template: a template that does not parse is an error.
render_template(t, m) ==
    IF \E i \in 1..Len(t) : t[i] = OpenBrace THEN Err("TemplateError")
    ELSE Ok(RenderAll(t, m))

\* The rendering of the text with the mapping merged for it; combined is
\* that mapping, when there is one.
Rendered(r, m) == [kind |-> r.kind, err |-> r.err, val |-> r.val, combined |-> Some(m)]

RenderWith(text, merged) ==
    IF merged.kind # "Ok"
    THEN [kind |-> "Panic", err |-> "", val |-> <<>>, combined |-> None]
    ELSE Rendered(render_template(text, merged.val), merged.val)

\* Request::apply_combined_args on the text fstr holds: the text it stores.
apply_combined_args(text, env, extra_args) == RenderWith(text, CombinedArgs(env, extra_args))

(***************************************************************************)
(* The tokens of a request: Method, Url, HeaderName, HeaderValue.          *)
(***************************************************************************)
\* A token: one character or more, each a token character.
ValidToken(b) == b # <<>> /\ \A i \in 1..Len(b) : NameChar(b[i])

\* Method::from_bytes
MethodFromBytes(b) == IF ValidToken(b) THEN Ok(b) ELSE Err("MethodError")

\* Url::parse trims spaces at both ends.
RECURSIVE TrimStart(_)
TrimStart(s) == IF s # <<>> /\ Head(s) = " " THEN TrimStart(Tail(s)) ELSE s

RECURSIVE TrimEnd(_)
TrimEnd(s) ==
    IF s # <<>> /\ s[Len(s)] = " " THEN TrimEnd(SubSeq(s, 1, Len(s) - 1)) ELSE s

\* An absolute URL starts with a scheme, which a letter starts and the colon
\* at p ends; the scheme is stored in lower case.  A text with no scheme is
\* a relative URL, which has no base here.
UrlWithScheme(t, p) ==
    IF p > 1 /\ t[1] \in {"G", "H", "g", "h"} /\ \A i \in 1..(p - 1) : NameChar(t[i])
    THEN Ok(LowerStr(SubSeq(t, 1, p - 1)) \o SubSeq(t, p, Len(t)))
    ELSE Err("UrlError")

UrlTrimmed(t) == UrlWithScheme(t, IndexOf(t, ":"))

\* Url::parse
UrlParse(u) == UrlTrimmed(TrimEnd(TrimStart(u)))

\* HeaderName::from_bytes: a token, stored in lower case.
HeaderNameFromBytes(b) == IF ValidToken(b) THEN Ok(LowerStr(b)) ELSE Err("HeaderNameError")

\* HeaderValue::from_bytes: visible characters, spaces and tabs.
HeaderValueFromBytes(b) ==
    IF \A i \in 1..Len(b) : b[i] \notin {NL, CR} THEN Ok(b) ELSE Err("HeaderValueError")

\* header_regex.is_match: ^[A-Za-z0-9-]+:\s*.+$
header_regex(line) ==
    \E i \in 1..Len(line), j \in 0..Len(line) :
        /\ \A k \in 1..i : NameChar(line[k])
        /\ i + 1 <= Len(line)
        /\ line[i + 1] = ":"
        /\ i + 1 + j < Len(line)
        /\ \A k \in (i + 2)..(i + 1 + j) : IsSpace(line[k])
        /\ \A k \in (i + 2 + j)..Len(line) : line[k] # NL

(***************************************************************************)
(* Request::parse, from the expanded text on.                              *)
(***************************************************************************)
\* A body that starts as the empty string.
InitialBodyEmpty == Some(<<>>)

\* The body before the header loop: None.
InitialBody == None

\* A first line that is no header left out of the body.
SeedBodyNone(line) == None

\* The body the header loop leaves at the first line that is no header.
SeedBody(line) == Some(line)

\* The header loop from line i on: the headers, the body the loop leaves
\* (the first line that is no header) and the index of the next line.
RECURSIVE ScanHeaders(_, _, _)

\* The value of the header line i, whose name is read.
HeaderValued(lines, i, headers, name, val) ==
    IF val.kind # "Ok" THEN val
    ELSE ScanHeaders(lines, i + 1, Append(headers, <<name.val, val.val>>))

\* The name of the header line i, whose parts are split; the second part is
\* unwrapped, so a line of one part panics.
HeaderNamed(lines, i, headers, parts, name) ==
    IF name.kind # "Ok" THEN name
    ELSE IF Len(parts) < 2 THEN Panic
    ELSE HeaderValued(lines, i, headers, name, HeaderValueFromBytes(parts[2]))

\* The header line i with its value taken after the last colon and space of
\* the line: the last part of a split at every colon and space.
HeaderLineLastPart(lines, i, headers, parts) ==
    HeaderNamed(lines, i, headers,
                IF Len(parts) = 2 /\ Find(parts[2], <<":", " ">>) > 0
                THEN <<parts[1],
                       SubSeq(parts[2],
                              2 + CHOOSE p \in 1..Len(parts[2]) :
                                      /\ OccursAt(parts[2], <<":", " ">>, p)
                                      /\ \A q \in (p + 1)..Len(parts[2]) :
                                              ~OccursAt(parts[2], <<":", " ">>, q),
                              Len(parts[2]))>>
                ELSE parts,
                HeaderNameFromBytes(parts[1]))

\* The header line i, split at its first colon and space.
HeaderLine(lines, i, headers, parts) ==
    HeaderNamed(lines, i, headers, parts, HeaderNameFromBytes(parts[1]))

\* The header loop with no break: a line that is no header becomes the body
\* and the loop goes on, so a later line that matches is read as a header.
ScanHeadersNoBreak(lines, i, headers) ==
    IF i > Len(lines)
    THEN Ok([headers |-> headers,
             body |-> IF \A k \in 2..Len(lines) : header_regex(lines[k]) THEN InitialBody
                      ELSE Some(lines[CHOOSE k \in 2..Len(lines) :
                                        /\ ~header_regex(lines[k])
                                        /\ \A j \in (k + 1)..Len(lines) : header_regex(lines[j])]),
             next |-> i])
    ELSE IF ~header_regex(lines[i]) THEN ScanHeaders(lines, i + 1, headers)
    ELSE HeaderLine(lines, i, headers, SplitN2(lines[i], <<":", " ">>))

ScanHeaders(lines, i, headers) ==
    IF i > Len(lines) THEN Ok([headers |-> headers, body |-> InitialBody, next |-> i])
    ELSE IF ~header_regex(lines[i])
    THEN Ok([headers |-> headers, body |-> SeedBody(lines[i]), next |-> i + 1])
    ELSE HeaderLine(lines, i, headers, SplitN2(lines[i], <<":", " ">>))

\* The body and a line with nothing between them.
FormatBodyNoNewline(body, line) == body \o line

\* format!("{}\n{}", body, line)
FormatBody(body, line) == body \o <<NL>> \o line

\* The body loop: each line left is appended after a newline.  The body is
\* unwrapped, so a line left with no body panics.
RECURSIVE AppendBody(_, _)
AppendBody(body, rest) ==
    IF rest = <<>> THEN Ok(body)
    ELSE IF IsNone(body) THEN Panic
    ELSE AppendBody(Some(FormatBody(Unwrap(body), Head(rest))), Tail(rest))

\* The URL of the request line, whose method is read.
WithUrl(method, url) ==
    IF url.kind # "Ok" THEN url ELSE Ok([method |-> method.val, url |-> url.val])

\* The request line with the URL part looked for before the method is read.
MethodAndUrlSpaceFirst(fline_parts, method) ==
    IF Len(fline_parts) < 2 THEN Err("MalformedRequestLine")
    ELSE IF method.kind # "Ok" THEN method
    ELSE WithUrl(method, UrlParse(fline_parts[2]))

\* The method, and then the URL part of the request line.
MethodAndUrl(fline_parts, method) ==
    IF method.kind # "Ok" THEN method
    ELSE IF Len(fline_parts) < 2 THEN Err("MalformedRequestLine")
    ELSE WithUrl(method, UrlParse(fline_parts[2]))

\* The first line, split at its first space.
RequestLineParts(fline_parts) == MethodAndUrl(fline_parts, MethodFromBytes(fline_parts[1]))

\* The request line split at its last space.
RequestLineLastSpace(lines) ==
    IF lines = <<>> THEN Err("MalformedRequestLine")
    ELSE IF \A i \in 1..Len(lines[1]) : lines[1][i] # " "
    THEN RequestLineParts(<<lines[1]>>)
    ELSE RequestLineParts(
            SplitAt(lines[1],
                    CHOOSE i \in 1..Len(lines[1]) :
                        lines[1][i] = " " /\ \A j \in (i + 1)..Len(lines[1]) : lines[1][j] # " ",
                    1))

\* The request line: the method and the URL.
RequestLine(lines) ==
    IF lines = <<>> THEN Err("MalformedRequestLine")
    ELSE RequestLineParts(SplitN2(lines[1], <<" ">>))

\* The RequestInner of a request line, headers and a body.
BuildInner(first, headers, body) ==
    IF body.kind # "Ok" THEN body
    ELSE Ok([method |-> first.method, url |-> first.url,
             headers |-> headers, body |-> body.val])

\* The body loop after the header loop.
AfterHeaders(lines, first, scan) ==
    IF scan.kind # "Ok" THEN scan
    ELSE BuildInner(first, scan.val.headers,
                    AppendBody(scan.val.body, SubSeq(lines, scan.val.next, Len(lines))))

\* The header loop after the request line.
AfterRequestLine(lines, first) ==
    IF first.kind # "Ok" THEN first
    ELSE AfterHeaders(lines, first.val, ScanHeaders(lines, 2, <<>>))

ParseLines(lines) == AfterRequestLine(lines, RequestLine(lines))

\* The RequestInner parse builds from the text fstr holds after expansion.
ParseText(text) == ParseLines(Lines(text))

(***************************************************************************)
(* The request files of the model.                                         *)
(***************************************************************************)
\* The lines joined, a newline before each.
RECURSIVE JoinLines(_)
JoinLines(ls) == IF ls = <<>> THEN <<>> ELSE <<NL>> \o Head(ls) \o JoinLines(Tail(ls))

\* Request files with no placeholder: a request line, at most MaxLines
\* lines after it, and a final newline or none.
PlainFirstLines ==
    { <<"G", " ", "G", ":">>,
      <<"G", " ", "G", ":", " ", "H">>,
      <<"G", " ", "G">>,
      <<":", " ", "G", ":">>,
      <<"G">>,
      <<":">>,
      <<>> }

PlainRestLines ==
    { <<"G", ":", " ", "G">>,
      <<"H", ":", " ", "H", ":", " ", "G">>,
      <<"G", ":", "G">>,
      <<"G">>,
      <<>> }

PlainFiles ==
    {f \o JoinLines(ls) \o end :
        f \in PlainFirstLines,
        ls \in UNION {[1..n -> PlainRestLines] : n \in 0..MaxLines},
        end \in {<<>>, <<NL>>}}

\* Request files whose lines end with a carriage return and a newline, in
\* the request line, a header line and the body, or in the body alone.
CrlfFiles ==
    { <<"G", " ", "G", ":", CR, NL, "G", ":", " ", "G", CR, NL, CR, NL, "G", CR, NL>>,
      <<"G", " ", "G", ":", NL, NL, "G", CR, NL, "H">>,
      <<"G", " ", "G", ":", NL, NL, "G", CR, NL>> }

\* Request files that are templates.
TemplateFiles ==
    { <<"G", " ", "{{a}}">>,
      <<"G", " ", "G", ":", NL, "H", ":", " ", "{{a}}">>,
      <<"G", " ", "G", ":", NL, "H", ":", " ", "{{a}}", NL, NL, "{{a}}", NL, "G">>,
      <<"G", " ", "G", ":", NL, "{{a}}", " ", "G">>,
      <<"G", " ", "G", ":", NL, "{{a}}", "G">>,
      <<"G", " ", "G", ":", NL, "{{">>,
      <<"G", " ", "G", ":", NL, "G", ":", " ", "G", NL, NL, "G">> }

(***************************************************************************)
(* The state: the file on disk, the Request and what its last call did.    *)
(***************************************************************************)
NoArgs == [env |-> None, extra_args |-> EmptyMap]

\* The path of the request file of the tests, in the alphabet of the model.
TestPath == <<"a", "/", "x", ".", "r", "e", "q", "q">>

\* Request::new with one of paths, the request file being one of files or
\* unreadable.
New(paths, files) ==
    /\ fpath \in paths
    /\ named = None
    /\ disk \in {None} \cup {Some(f) : f \in files}
    /\ fstr = None
    /\ inner = None
    /\ reads = 0
    /\ op = "new"
    /\ args = NoArgs
    /\ stage = "new"
    /\ combined = None
    /\ template = None
    /\ outcome = "Ok"
    /\ sent = None
    /\ everOk = FALSE

\* Request::new with the path of the tests.
InitWith(files) == New({TestPath}, files)

Init == InitWith(TemplateFiles)

\* fs::read_to_string(fpath)
ReadToString == IF IsNone(disk) THEN Err("IoError") ELSE Ok(Unwrap(disk))

\* What load does to fstr and reads once the file is read, and its result.
Loaded(read) ==
    IF read.kind = "Ok"
    THEN fstr' = Some(read.val) /\ reads' = reads + 1 /\ outcome' = "Ok"
    ELSE fstr' = fstr /\ reads' = reads /\ outcome' = read.err

\* Request::load with no look at fstr: the file is read at every call.
LoadAlways ==
    /\ outcome # "Panic"
    /\ op' = "load"
    /\ args' = NoArgs
    /\ stage' = "load"
    /\ combined' = None
    /\ template' = None
    /\ sent' = None
    /\ Loaded(ReadToString)
    /\ UNCHANGED <<fpath, named, disk, inner, everOk>>

\* Request::load
Load ==
    /\ outcome # "Panic"
    /\ op' = "load"
    /\ args' = NoArgs
    /\ stage' = "load"
    /\ combined' = None
    /\ template' = None
    /\ sent' = None
    /\ IF IsNone(fstr)
       THEN Loaded(ReadToString)
       ELSE fstr' = fstr /\ reads' = reads /\ outcome' = "Ok"
    /\ UNCHANGED <<fpath, named, disk, inner, everOk>>

\* The end of parse with inner assigned whatever the lines gave.
StoreInnerAlways(old, parsed) == Some(parsed.val)

\* The end of parse: inner is assigned once every line has been read, and
\* not when parse has returned an error before.
StoreInner(old, parsed) == IF parsed.kind = "Ok" THEN Some(parsed.val) ELSE old

\* What a call returns for a result.
OutcomeOf(r) == IF r.kind = "Ok" THEN "Ok" ELSE IF r.kind = "Panic" THEN "Panic" ELSE r.err

\* parse once the expanded text is stored and its lines are read.
AfterParse(rd, text, expanded, parsed) ==
    [fstr |-> Some(expanded.val), inner |-> StoreInner(inner, parsed), reads |-> rd,
     stage |-> "parse", combined |-> expanded.combined, template |-> Some(text),
     outcome |-> OutcomeOf(parsed)]

\* parse once apply_combined_args has returned.
AfterExpand(rd, text, expanded) ==
    IF expanded.kind = "Panic"
    THEN [fstr |-> Some(text), inner |-> inner, reads |-> rd, stage |-> "merge",
          combined |-> None, template |-> None, outcome |-> "Panic"]
    ELSE IF expanded.kind = "Err"
    THEN [fstr |-> Some(text), inner |-> inner, reads |-> rd, stage |-> "expand",
          combined |-> expanded.combined, template |-> Some(text),
          outcome |-> expanded.err]
    ELSE AfterParse(rd, text, expanded, ParseText(expanded.val))

\* parse once the text is loaded, from the file if fstr held none.
AfterLoad(env, extra_args, needsLoad, loaded) ==
    IF loaded.kind # "Ok"
    THEN [fstr |-> fstr, inner |-> inner, reads |-> reads, stage |-> "load",
          combined |-> None, template |-> None, outcome |-> loaded.err]
    ELSE AfterExpand(IF needsLoad THEN reads + 1 ELSE reads, loaded.val,
                     apply_combined_args(loaded.val, env, extra_args))

\* What a call of parse does to fstr, inner and reads, the stage it ends
\* in, the combined_args it builds, the template it renders and its result.
ParseStep(env, extra_args) ==
    AfterLoad(env, extra_args, IsNone(fstr),
              IF IsNone(fstr) THEN ReadToString ELSE Ok(Unwrap(fstr)))

\* The state after a call of parse that did r.
Parsed(r) ==
    /\ fstr' = r.fstr
    /\ inner' = r.inner
    /\ reads' = r.reads
    /\ stage' = r.stage
    /\ combined' = r.combined
    /\ template' = r.template
    /\ outcome' = r.outcome
    /\ everOk' = (everOk \/ r.outcome = "Ok")
    /\ sent' = None

\* Request::parse
Parse(env, extra_args) ==
    /\ outcome # "Panic"
    /\ op' = "parse"
    /\ args' = [env |-> env, extra_args |-> extra_args]
    /\ Parsed(ParseStep(env, extra_args))
    /\ UNCHANGED <<fpath, named, disk>>

\* Request::to_reqwest: the request handed to the client, built from inner.
to_reqwest(in) ==
    [method |-> in.method, url |-> in.url, headers |-> in.headers, body |-> in.body]

\* execute with the result of parse dropped: the request inner holds is
\* sent whenever there is one, and to_reqwest panics when there is none.
ExecutedWhateverParseDid(r, answered) ==
    /\ fstr' = r.fstr
    /\ inner' = r.inner
    /\ reads' = r.reads
    /\ combined' = r.combined
    /\ template' = r.template
    /\ everOk' = (everOk \/ r.outcome = "Ok")
    /\ IF IsSome(r.inner)
       THEN /\ sent' = Some(to_reqwest(Unwrap(r.inner)))
            /\ stage' = "send"
            /\ outcome' = IF answered THEN "Ok" ELSE "TransportError"
       ELSE /\ sent' = None
            /\ stage' = r.stage
            /\ outcome' = "Panic"

\* The state after a call of execute whose parse did r.
Executed(r, answered) ==
    /\ fstr' = r.fstr
    /\ inner' = r.inner
    /\ reads' = r.reads
    /\ combined' = r.combined
    /\ template' = r.template
    /\ everOk' = (everOk \/ r.outcome = "Ok")
    /\ IF r.outcome = "Ok"
       THEN /\ sent' = Some(to_reqwest(Unwrap(r.inner)))
            /\ stage' = "send"
            /\ outcome' = IF answered THEN "Ok" ELSE "TransportError"
       ELSE /\ sent' = None
            /\ stage' = r.stage
            /\ outcome' = r.outcome

\* Request::execute; the client answers or fails.
Execute(env, extra_args, answered) ==
    /\ outcome # "Panic"
    /\ op' = "execute"
    /\ args' = [env |-> env, extra_args |-> extra_args]
    /\ Executed(ParseStep(env, extra_args), answered)
    /\ UNCHANGED <<fpath, named, disk>>

OptEnvs == {None} \cup {Some(e) : e \in Envs}

\* The calls on a Request whose file is a template, with every environment
\* and every extra arguments.
Next ==
    \/ Load
    \/ \E env \in OptEnvs, extra_args \in Maps : Parse(env, extra_args)
    \/ \E env \in OptEnvs, extra_args \in Maps, answered \in BOOLEAN :
            Execute(env, extra_args, answered)

Spec == Init /\ [][Next]_vars

\* The calls on a Request whose file holds no placeholder: the text parsed
\* is the text of the file, whatever the variables are.
InitPlain == InitWith(PlainFiles \cup CrlfFiles)

NextPlain ==
    \/ Load
    \/ Parse(None, EmptyMap)
    \/ \E answered \in BOOLEAN : Execute(None, EmptyMap, answered)

SpecPlain == InitPlain /\ [][NextPlain]_vars

\* The calls, with every environment and every extra arguments, on a Request
\* whose file is a template or a text of at most two lines with no
\* placeholder.
ShortPlainFiles ==
    {f \o JoinLines(ls) :
        f \in PlainFirstLines, ls \in UNION {[1..n -> PlainRestLines] : n \in 0..1}}

InitMixed == InitWith(TemplateFiles \cup ShortPlainFiles)

SpecMixed == InitMixed /\ [][Next]_vars

(***************************************************************************)
(* Request::name                                                           *)
(***************************************************************************)
\* The bounds of the paths: the characters of a directory and the segments
\* of a request name.
MaxDirLen == 2

MaxSegments == 3

\* The extension of a request file.
Ext == <<".", "r", "e", "q", "q">>

\* str::trim_start_matches: every leading repetition of pat is removed; an
\* empty pat removes nothing.
RECURSIVE TrimStartMatches(_, _)
TrimStartMatches(s, pat) ==
    IF pat = <<>> \/ ~OccursAt(s, pat, 1) THEN s
    ELSE TrimStartMatches(SubSeq(s, Len(pat) + 1, Len(s)), pat)

\* str::trim_end_matches: every trailing repetition of pat is removed.
RECURSIVE TrimEndMatches(_, _)
TrimEndMatches(s, pat) ==
    IF pat = <<>> \/ Len(s) < Len(pat) \/ ~OccursAt(s, pat, Len(s) - Len(pat) + 1) THEN s
    ELSE TrimEndMatches(SubSeq(s, 1, Len(s) - Len(pat)), pat)

\* Request::name
name(dir) == TrimEndMatches(TrimStartMatches(TrimStartMatches(fpath, dir), <<"/">>), Ext)

\* A call of name: the Request is left as it is.
Name(dir) ==
    /\ outcome # "Panic"
    /\ named' = Some([dir |-> dir, name |-> name(dir)])
    /\ UNCHANGED <<fpath, disk, fstr, inner, reads, op, args, stage, combined, template,
                   outcome, sent, everOk>>

\* The directories: the texts of at most MaxDirLen characters.
Dirs == UNION {[1..n -> {"/", "a"}] : n \in 0..MaxDirLen}

\* The segments of a request name; a file may itself be named x.reqq.
Segments == {<<"a">>, <<"x">>, <<"x">> \o Ext}

\* The segments with a separator before each.
RECURSIVE JoinSegments(_)
JoinSegments(segs) ==
    IF segs = <<>> THEN <<>> ELSE <<"/">> \o Head(segs) \o JoinSegments(Tail(segs))

\* The request names: one to MaxSegments segments, a separator between
\* each two.
Rels == {Tail(JoinSegments(segs)) : segs \in UNION {[1..n -> Segments] : n \in 1..MaxSegments}}

\* The path of the request file rel of the directory dir.
PathOf(dir, rel) == dir \o <<"/">> \o rel \o Ext

Paths == {PathOf(dir, rel) : dir \in Dirs, rel \in Rels}

\* The calls of name on a Request made with a path of a request directory.
InitName == New(Paths, {})

NextName == \E dir \in Dirs : Name(dir)

SpecName == InitName /\ [][NextName]_vars

(***************************************************************************)
(* The merge of two sources of variables over two keys.                    *)
(***************************************************************************)
\* The keys of the mappings: the key of the template and one more.
MergeKeys == Keys \cup {"b"}

MergeMaps == UNION {[D -> Values] : D \in SUBSET MergeKeys}

\* The environments whose file holds an object, and no environment.
MergeEnvs == {None} \cup {Some([file |-> "object", map |-> m]) : m \in MergeMaps}

\* The calls of parse on a Request whose file is a template with one
\* placeholder, with every environment and extra arguments over two keys.
InitMerge == InitWith({<<"G", " ", "G", ":", NL, "H", ":", " ", "{{a}}">>})

NextMerge == \E env \in MergeEnvs, extra_args \in MergeMaps : Parse(env, extra_args)

SpecMerge == InitMerge /\ [][NextMerge]_vars

(***************************************************************************)
(* Properties.                                                             *)
(***************************************************************************)
\* The last call was parse or execute.
Called == op \in {"parse", "execute"}

\* The last call expanded its template and went on to read the lines of the
\* expanded text, which fstr now holds.
ReachedParse == Called /\ stage \in {"parse", "send"}

\* The last call built a structured request, which inner now holds.
ParsedOk == ReachedParse /\ (stage = "send" \/ outcome = "Ok")

\* What a new Request holding the text raw produces with the variables m.
FreshParsed(expanded) == IF expanded.kind # "Ok" THEN expanded ELSE ParseText(expanded.val)

FreshParse(raw, m) == FreshParsed(render_template(raw, m))

\* The request in is the one the result fresh holds.
SameRequest(in, fresh) == fresh.kind = "Ok" /\ in = fresh.val

\* C1: the structured request a call of parse or execute produces from the
\* merged variables V is the one a new Request holding the original text of
\* the file produces from V.
C1_ExpandsOriginalText ==
    ParsedOk => SameRequest(Unwrap(inner), FreshParse(Unwrap(disk), Unwrap(combined)))

\* The keys both mappings bind.
BothBind(E, X) == DOMAIN E \cap DOMAIN X

\* C2: a key that both the environment and the extra arguments bind is bound
\* in the merged mapping to the value the extra arguments give it.
C2_ExtraArgsWin ==
    (Called /\ IsSome(combined) /\ IsSome(args.env)) =>
        \A k \in BothBind(Unwrap(args.env).map, args.extra_args) :
            Unwrap(combined)[k] = args.extra_args[k]

\* A template was rendered with a merged mapping in which a key bound by
\* both sources has the value of the extra arguments, another than the
\* environment's.
C2_Witness ==
    /\ Called
    /\ IsSome(combined)
    /\ IsSome(template)
    /\ IsSome(args.env)
    /\ \E k \in BothBind(Unwrap(args.env).map, args.extra_args) :
            /\ Unwrap(args.env).map[k] # args.extra_args[k]
            /\ Unwrap(combined)[k] = args.extra_args[k]

\* The lines of the expanded text the last call read.
TextLines == Lines(Unwrap(fstr))

\* How many lines from line i on match the header pattern, one after the
\* other.
RECURSIVE MatchingRun(_, _)
MatchingRun(lines, i) ==
    IF i <= Len(lines) /\ header_regex(lines[i]) THEN 1 + MatchingRun(lines, i + 1) ELSE 0

\* The header block of a text: the lines after the request line up to the
\* first that does not match the header pattern.
HeaderCount(lines) == MatchingRun(lines, 2)

\* The name and the value the header line with its colon at p stands for:
\* the text before the colon, in lower case, and the text after the colon
\* and the space.
HeaderPairAt(line, p) == <<LowerStr(SubSeq(line, 1, p - 1)), SubSeq(line, p + 2, Len(line))>>

HeaderPair(line) == HeaderPairAt(line, IndexOf(line, ":"))

\* The lines with a newline between each two.
JoinNewline(ls) == IF ls = <<>> THEN <<>> ELSE Tail(JoinLines(ls))

\* s starts with t.
StartsWith(s, t) == Len(t) <= Len(s) /\ SubSeq(s, 1, Len(t)) = t

\* The lines hold a header block of n lines and a line after it.
HeaderBlockEnds(lines, n) == n + 2 <= Len(lines)

\* The request in holds the n header lines of lines as its headers, and a
\* body that starts with the line after them.
HeaderBlockParsed(lines, n, in) ==
    /\ Len(in.headers) = n
    /\ \A i \in 1..n : in.headers[i] = HeaderPair(lines[i + 1])
    /\ IsSome(in.body)
    /\ StartsWith(Unwrap(in.body), lines[n + 2])

C3_For(lines, n) ==
    (RequestLine(lines).kind = "Ok" /\ HeaderBlockEnds(lines, n)) =>
        (ParsedOk /\ HeaderBlockParsed(lines, n, Unwrap(inner)))

\* C3: when the request line is valid and the lines after it are n lines
\* that match the header pattern followed by a line that does not, parse
\* succeeds with n header pairs, the i-th from the i-th of these lines, and
\* the body starts with the line that does not match.
C3_HeaderBlockParses == ReachedParse => C3_For(TextLines, HeaderCount(TextLines))

C4_For(lines, n, body) ==
    HeaderBlockEnds(lines, n) => body = Some(JoinNewline(SubSeq(lines, n + 2, Len(lines))))

\* C4: when a line L0 that does not match the header pattern ends the header
\* block, the body is L0 and then every line after it, each after one
\* newline.
C4_BodyIsRemainingLines ==
    ParsedOk => C4_For(TextLines, HeaderCount(TextLines), Unwrap(inner).body)

C4_WitnessFor(lines, n, body) ==
    /\ n >= 1
    /\ Len(lines) = n + 3
    /\ lines[n + 2] = <<>>
    /\ lines[n + 3] # <<>>
    /\ body = Some(<<NL>> \o lines[n + 3])

\* A header, the empty separator line and one line of content: the body is
\* a newline and the content.
C4_Witness ==
    ParsedOk /\ C4_WitnessFor(TextLines, HeaderCount(TextLines), Unwrap(inner).body)

\* Every line after the request line matches the header pattern.
AllHeaders(lines) == \A i \in 2..Len(lines) : header_regex(lines[i])

\* C5: after a successful parse the body is None exactly when every line
\* after the request line matches the header pattern.
C5_BodyNoneIffAllHeaders ==
    ParsedOk => (IsNone(Unwrap(inner).body) <=> AllHeaders(TextLines))

C5_WitnessFor(lines, in) ==
    /\ Len(lines) >= 2
    /\ AllHeaders(lines)
    /\ Len(in.headers) = Len(lines) - 1
    /\ IsNone(in.body)

\* A request of a request line and header lines only: the body is None.
C5_Witness == ParsedOk /\ C5_WitnessFor(TextLines, Unwrap(inner))

\* The template the last call rendered names a key the merged mapping of
\* the call does not bind.
NamesUnbound(t, m) ==
    \E i \in 1..Len(t) : t[i] \in Placeholders /\ KeyOf(t[i]) \notin DOMAIN m

UnboundPlaceholder ==
    /\ Called
    /\ IsSome(template)
    /\ IsSome(combined)
    /\ NamesUnbound(Unwrap(template), Unwrap(combined))

\* C6: a call whose template names a key the merged mapping does not bind
\* returns a template error and goes no further than the expansion.
C6_UnboundPlaceholderFails ==
    UnboundPlaceholder => (outcome = "TemplateError" /\ stage = "expand")

\* The text has no first line, or a first line with no space.
NoSpaceInRequestLine(lines) ==
    lines = <<>> \/ \A i \in 1..Len(lines[1]) : lines[1][i] # " "

\* A method token: one character or more, each a token character.
IsToken(b) == Len(b) >= 1 /\ \A i \in 1..Len(b) : NameChar(b[i])

\* C7 as stated: a text with no first line, or with no space in its first
\* line, fails as a malformed request line whatever the line holds.
C7_AlwaysMalformedRequestLine ==
    (ReachedParse /\ NoSpaceInRequestLine(TextLines)) => outcome = "MalformedRequestLine"

C7_For(lines) ==
    NoSpaceInRequestLine(lines) =>
        outcome = IF lines = <<>> \/ IsToken(lines[1])
                  THEN "MalformedRequestLine" ELSE "MethodError"

\* C7: a text with no first line, or with no space in its first line, fails:
\* as a malformed request line when there is no line or the line is a method
\* token, and with a method error when the line is no method token.
C7_NoSpaceFails == ReachedParse => C7_For(TextLines)

C7_WitnessFor(lines) ==
    /\ NoSpaceInRequestLine(lines)
    /\ lines # <<>>
    /\ ~IsToken(lines[1])
    /\ outcome = "MethodError"

\* A first line with no space that is no method token: a method error.
C7_Witness == ReachedParse /\ C7_WitnessFor(TextLines)

ParseFailed == Called /\ stage # "send" /\ outcome \notin {"Ok", "Panic"}

\* C9: inner is present only after a call of parse that succeeded, and a
\* call of parse that returns an error leaves inner as it was.
C9_InnerOnlyAfterSuccess ==
    /\ [](IsSome(inner) => everOk)
    /\ [][ParseFailed' => inner' = inner]_vars

\* parse has read a valid request line and then failed on a header line:
\* no request is stored.
C9_Witness ==
    /\ ParseFailed
    /\ stage = "parse"
    /\ RequestLine(TextLines).kind = "Ok"
    /\ outcome = "HeaderNameError"
    /\ IsNone(inner)
    /\ ~everOk

\* The environment file cannot be read, or holds no object.
EnvFileFails(env) == env.file \in {"missing", "notobject"}

\* The last call was given an environment that fails, and had the request
\* text to expand.
EnvFails == Called /\ stage # "load" /\ IsSome(args.env) /\ EnvFileFails(Unwrap(args.env))

\* The error kind of the failure of the environment.
EnvErrorKind(env) == IF env.file = "missing" THEN "IoError" ELSE "FormatError"

\* C10: a call given an environment that fails to load, or to convert to a
\* mapping, returns that failure as an error of its kind; it expands no
\* template, parses nothing and sends nothing.
C10_EnvFailureIsReturned ==
    EnvFails =>
        /\ outcome = EnvErrorKind(Unwrap(args.env))
        /\ stage = "merge"
        /\ IsNone(template)
        /\ IsNone(sent)

\* The text s after its first k newlines.
RECURSIVE AfterNewlines(_, _)
AfterNewlines(s, k) ==
    IF k = 0 THEN s ELSE AfterNewlines(SubSeq(s, IndexOf(s, NL) + 1, Len(s)), k - 1)

C11_For(text, lines, n, body) ==
    HeaderBlockEnds(lines, n) => body = Some(AfterNewlines(text, n + 1))

\* C11: the body, when there is one, is the expanded text from the start of
\* the first line that does not match the header pattern to the end of the
\* text, character for character: the newline that ends the text and a
\* carriage return before a newline are in it.
C11_BodyIsVerbatimSuffix ==
    ParsedOk => C11_For(Unwrap(fstr), TextLines, HeaderCount(TextLines), Unwrap(inner).body)

\* What the claim says of a call of name with dir that returned result.
C12_For(dir, result) ==
    /\ \A rel \in Rels : fpath = PathOf(dir, rel) => result = rel
    /\ ~OccursAt(fpath, dir, 1) => result = TrimEndMatches(TrimStartMatches(fpath, <<"/">>), Ext)

\* C12: for a Request whose path is dir, a separator, rel and the
\* extension, name(dir) is rel: one leading dir, the separator and one
\* trailing extension are removed; and when dir is no prefix of the path,
\* nothing is removed from the start of the path but separators.
C12_NameIsRelativePath ==
    IsSome(named) => C12_For(Unwrap(named).dir, Unwrap(named).name)

\* The line is a method token, the space at p and the text of an absolute
\* URL.
WellFormedRequestLine(line, p) ==
    /\ p > 0
    /\ IsToken(SubSeq(line, 1, p - 1))
    /\ UrlParse(SubSeq(line, p + 1, Len(line))).kind = "Ok"

\* The request line is read with its first space at p: no error of the
\* request line, and a request built has the text before p as method and
\* the parse of all the text after p as URL.
C13_For(line, p) ==
    WellFormedRequestLine(line, p) =>
        /\ outcome \notin {"MalformedRequestLine", "MethodError", "UrlError"}
        /\ ParsedOk =>
                /\ Unwrap(inner).method = SubSeq(line, 1, p - 1)
                /\ Unwrap(inner).url = UrlParse(SubSeq(line, p + 1, Len(line))).val

\* C13: a first line that is a method token M, a space and the text U of an
\* absolute URL is read as method M and URL the parse of U, M being the
\* text before the first space and U all the text after it, later spaces
\* included.
C13_RequestLineSplitsAtFirstSpace ==
    (ReachedParse /\ TextLines # <<>>) => C13_For(TextLines[1], IndexOf(TextLines[1], " "))

C13_WitnessFor(line, p, in) ==
    /\ WellFormedRequestLine(line, p)
    /\ \E i \in (p + 1)..Len(line) : line[i] = " "
    /\ in.method = SubSeq(line, 1, p - 1)
    /\ \E i \in 1..Len(in.url) : in.url[i] = " "

\* A request built from a first line of two spaces: the second space is in
\* the URL.
C13_Witness ==
    /\ ParsedOk
    /\ TextLines # <<>>
    /\ C13_WitnessFor(TextLines[1], IndexOf(TextLines[1], " "), Unwrap(inner))

\* The mapping of the environment a call was given: empty when it was given
\* none.
EnvMap(env) == IF IsNone(env) THEN EmptyMap ELSE Unwrap(env).map

C14_For(E, X, merged) ==
    /\ DOMAIN merged = DOMAIN E \cup DOMAIN X
    /\ \A k \in DOMAIN E \ DOMAIN X : merged[k] = E[k]

\* C14: the merge drops no entry: the keys of the merged mapping are the
\* keys of the environment and the keys of the extra arguments, and a key
\* only the environment binds keeps the environment's value.
C14_MergeDropsNoEntry ==
    (Called /\ IsSome(combined)) =>
        C14_For(EnvMap(args.env), args.extra_args, Unwrap(combined))

C14_WitnessFor(E, X, merged) ==
    /\ DOMAIN E \ DOMAIN X # {}
    /\ DOMAIN X \ DOMAIN E # {}
    /\ DOMAIN merged = DOMAIN E \cup DOMAIN X
    /\ \A k \in DOMAIN E \ DOMAIN X : merged[k] = E[k]

\* A call whose environment binds one key and whose extra arguments bind
\* another: the merged mapping binds both.
C14_Witness ==
    /\ Called
    /\ IsSome(combined)
    /\ C14_WitnessFor(EnvMap(args.env), args.extra_args, Unwrap(combined))

\* The lines after the first line that does not match the header pattern,
\* which is line n + 2, that match it.
LateHeaderLines(lines, n) == {i \in (n + 3)..Len(lines) : header_regex(lines[i])}

\* The headers are those of the n lines of the header block and no more,
\* and each late line that matches is a line of the body, at its place.
C15_For(lines, n, in, late) ==
    /\ Len(in.headers) = n
    /\ late # {} => IsSome(in.body)
    /\ \A i \in late : Lines(Unwrap(in.body))[i - n - 1] = lines[i]

\* C15: once the first line that does not match the header pattern is read,
\* no later line is added to the headers, even one that matches the
\* pattern: it is appended to the body.
C15_NoHeaderAfterBodyStarts ==
    ParsedOk => C15_For(TextLines, HeaderCount(TextLines), Unwrap(inner),
                        LateHeaderLines(TextLines, HeaderCount(TextLines)))

C15_WitnessFor(lines, n, in, late) ==
    /\ n >= 1
    /\ late # {}
    /\ Len(in.headers) = n
    /\ \A i \in late : Lines(Unwrap(in.body))[i - n - 1] = lines[i]

\* A request built from a header, a line that is no header and then a line
\* that matches the header pattern: one header, the late line in the body.
C15_Witness ==
    /\ ParsedOk
    /\ C15_WitnessFor(TextLines, HeaderCount(TextLines), Unwrap(inner),
                      LateHeaderLines(TextLines, HeaderCount(TextLines)))

\* The request req is built from the structured request the result fresh
\* holds.
BuiltFrom(req, fresh) == fresh.kind = "Ok" /\ req = to_reqwest(fresh.val)

PlaceholderFree(t) == \A i \in 1..Len(t) : t[i] \notin Placeholders \cup {OpenBrace}

\* The last call ended as the parse fresh of a text ends: with the request
\* of fresh stored, or with the error of fresh.
EndedAs(fresh) ==
    IF fresh.kind = "Ok"
    THEN ParsedOk /\ inner = Some(fresh.val)
    ELSE ~ParsedOk /\ stage = "parse" /\ outcome = OutcomeOf(fresh)

C17_For(raw) ==
    PlaceholderFree(raw) =>
        /\ template = Some(raw)
        /\ fstr = Some(raw)
        /\ EndedAs(ParseText(raw))

\* C17: when the text of the file holds no placeholder, a call that expands
\* it, whatever its variables and whatever calls came before, leaves the
\* cached text the text of the file, and ends as the structural parse of the
\* text of the file ends.
C17_PlaceholderFreeRoundTrip ==
    (Called /\ IsSome(template) /\ IsSome(disk)) => C17_For(Unwrap(disk))

\* A call with variables on a Request whose file holds no placeholder: a
\* request with a header and a body is built from the text of the file.
C17_Witness ==
    /\ ParsedOk
    /\ IsSome(disk)
    /\ PlaceholderFree(Unwrap(disk))
    /\ IsSome(combined)
    /\ Unwrap(combined) # EmptyMap
    /\ fstr = disk
    /\ Unwrap(inner).headers # <<>>
    /\ IsSome(Unwrap(inner).body)

\* The colon and space at p are the first of the line.
FirstColonSpace(line, p) ==
    /\ OccursAt(line, <<":", " ">>, p)
    /\ \A q \in 1..(p - 1) : ~OccursAt(line, <<":", " ">>, q)

\* The pair is the header name of the text before the first colon and space
\* of the line (a HeaderName holds its text in lower case) and, as value,
\* all the text after them.
SplitsAtFirstColonSpace(line, pair) ==
    \E p \in 1..Len(line) :
        /\ FirstColonSpace(line, p)
        /\ pair[1] = LowerStr(SubSeq(line, 1, p - 1))
        /\ pair[2] = SubSeq(line, p + 2, Len(line))

C18_For(lines, in) ==
    \A i \in 1..Len(in.headers) : SplitsAtFirstColonSpace(lines[i + 1], in.headers[i])

\* C18: the name of a header is the text of its line before the first
\* colon and space, and its value is all the text after them, unchanged: a
\* later colon, or colon and space, is part of the value.
C18_HeaderSplitsAtFirstColonSpace == ParsedOk => C18_For(TextLines, Unwrap(inner))

C18_WitnessFor(lines, in) ==
    \E i \in 1..Len(in.headers) :
        /\ SplitsAtFirstColonSpace(lines[i + 1], in.headers[i])
        /\ Find(in.headers[i][2], <<":", " ">>) > 0

\* A request with a header whose line holds a colon and space twice: the
\* second is in the value.
C18_Witness == ParsedOk /\ C18_WitnessFor(TextLines, Unwrap(inner))

\* Every line of the header block splits at a colon and space in two parts.
HeaderBlockSplits(lines, n) ==
    \A i \in 2..(n + 1) : Len(SplitN2(lines[i], <<":", " ">>)) = 2

\* The last call read the lines of a text and did not panic.
ParseNeverPanics == ReachedParse => outcome # "Panic"

\* C19: every line the header pattern accepts splits at a colon and space
\* into a name part and a value part, so that the value is never missing
\* when it is unwrapped: parse ends with a request or an error, never with
\* a panic.
C19_MatchingLineSplitsInTwo ==
    (ReachedParse /\ RequestLine(TextLines).kind = "Ok") =>
        /\ HeaderBlockSplits(TextLines, HeaderCount(TextLines))
        /\ outcome # "Panic"

\* The header loop has ended with no error: a line left for the body loop
\* finds a body to be appended to, and a request is built.
C20_For(lines, scan) ==
    scan.kind = "Ok" =>
        /\ scan.val.next <= Len(lines) => IsSome(scan.val.body)
        /\ ParsedOk

\* C20: when lines are left after the header loop, the body holds the line
\* that ended the loop, so the body loop never unwraps a body that is None:
\* once the header loop has ended with no error, parse succeeds.
C20_BodyLoopNeverFails ==
    (ReachedParse /\ RequestLine(TextLines).kind = "Ok") =>
        C20_For(TextLines, ScanHeaders(TextLines, 2, <<>>))

C20_WitnessFor(lines, scan, in) ==
    /\ scan.kind = "Ok"
    /\ scan.val.headers # <<>>
    /\ scan.val.next <= Len(lines)
    /\ IsSome(scan.val.body)
    /\ IsSome(in.body)
    /\ Len(Unwrap(in.body)) > Len(Unwrap(scan.val.body))

\* A request built from a header, the line that ends the header loop and a
\* line more: the body loop has appended it to the body.
C20_Witness ==
    /\ ParsedOk
    /\ C20_WitnessFor(TextLines, ScanHeaders(TextLines, 2, <<>>), Unwrap(inner))
====
